---- MODULE Spec2Model ----
(***************************************************************************)
(* Vector storage factory (src/src/core/vector_storage/factory.ts).        *)
(*                                                                         *)
(* Two parts are modelled:                                                 *)
(*   - the configuration resolvers getVectorStoreConfigFromEnv and         *)
(*     getWorkspaceVectorStoreConfigFromEnv and the zod validator          *)
(*     VectorStoreSchema, as operators over an explicit environment        *)
(*     (specification SpecResolve);                                        *)
(*   - the factories createVectorStore, createDualCollection... and        *)
(*     createMultiCollection..., as processes that suspend at each await,  *)
(*     around the service cache (specification Spec).                      *)
(***************************************************************************)
EXTENDS Integers, Sequences, FiniteSets, TLC

\* ------------------------------------------------------------------------
\* JavaScript values
\* ------------------------------------------------------------------------
\* Values are tagged records; every tag has its own field names, so two
\* values of different kinds are never compared field by field.

Undefined == [t |-> "undefined"]

\* a string used only for identity and truthiness (type, host, url, keys)
Str(s) == [t |-> "string", s |-> s]

\* a string whose characters matter (names, metrics): a sequence of characters
Txt(cs) == [t |-> "string", chars |-> cs]

\* a number n, or n + 1/2 when half is TRUE
Num(n) == [t |-> "number", n |-> n, half |-> FALSE]

Half(n) == [t |-> "number", n |-> n, half |-> TRUE]

NaN == [t |-> "number", nan |-> TRUE]

Bool(b) == [t |-> "boolean", b |-> b]

\* an object literal with the given fields
Obj(fields) == [t |-> "object", fields |-> fields]

IsString(v) == v.t = "string"

IsAtom(v) == IsString(v) /\ "s" \in DOMAIN v

IsText(v) == IsString(v) /\ "chars" \in DOMAIN v

\* Number.isNaN(v)
IsNaN(v) == v.t = "number" /\ "nan" \in DOMAIN v

\* typeof v === 'number'
IsNumber(v) == v.t = "number"

IsFinite(v) == IsNumber(v) /\ ~IsNaN(v)

IsInteger(v) == IsFinite(v) /\ ~v.half

\* v > 0 for a number v (NaN > 0 is false)
GreaterThanZero(v) == IsFinite(v) /\ (v.n > 0 \/ (v.n = 0 /\ v.half))

\* ToBoolean(v): what `!v`, `v || w` and `if (v)` test
Truthy(v) ==
  CASE v.t = "undefined" -> FALSE
    [] v.t = "boolean" -> v.b
    [] v.t = "object" -> TRUE
    [] IsNaN(v) -> FALSE
    [] IsNumber(v) -> ~(v.n = 0 /\ ~v.half)
    [] IsAtom(v) -> v.s # ""
    [] OTHER -> v.chars # <<>>

\* a || b
Or(a, b) == IF Truthy(a) THEN a ELSE b

WhiteSpace == {" ", "\t"}

RECURSIVE TrimStart(_)
TrimStart(cs) ==
  IF cs # <<>> /\ Head(cs) \in WhiteSpace THEN TrimStart(Tail(cs)) ELSE cs

RECURSIVE TrimEnd(_)
TrimEnd(cs) ==
  IF cs # <<>> /\ cs[Len(cs)] \in WhiteSpace
  THEN TrimEnd(SubSeq(cs, 1, Len(cs) - 1))
  ELSE cs

\* String.prototype.trim on a character sequence
Trim(cs) == TrimEnd(TrimStart(cs))

\* ------------------------------------------------------------------------
\* Literals of the source
\* ------------------------------------------------------------------------

knowledge_memory ==
  <<"k","n","o","w","l","e","d","g","e","_","m","e","m","o","r","y">>

workspace_memory ==
  <<"w","o","r","k","s","p","a","c","e","_","m","e","m","o","r","y">>

DefaultDimension == 1536

DefaultMaxVectors == 10000

\* ------------------------------------------------------------------------
\* The environment (env) and the agent configuration
\* ------------------------------------------------------------------------

\* the variables the resolvers read, in the order the model assigns them
ResolverVars ==
  << "VECTOR_STORE_TYPE", "VECTOR_STORE_HOST", "VECTOR_STORE_URL",
     "VECTOR_STORE_PORT", "VECTOR_STORE_API_KEY", "VECTOR_STORE_COLLECTION",
     "VECTOR_STORE_DIMENSION", "VECTOR_STORE_DISTANCE", "VECTOR_STORE_ON_DISK",
     "VECTOR_STORE_MAX_VECTORS", "VECTOR_STORE_USERNAME",
     "VECTOR_STORE_PASSWORD", "PINECONE_NAMESPACE", "PINECONE_METRIC",
     "WORKSPACE_VECTOR_STORE_TYPE", "WORKSPACE_VECTOR_STORE_HOST",
     "WORKSPACE_VECTOR_STORE_URL", "WORKSPACE_VECTOR_STORE_PORT",
     "WORKSPACE_VECTOR_STORE_API_KEY", "WORKSPACE_VECTOR_STORE_COLLECTION",
     "WORKSPACE_VECTOR_STORE_DIMENSION", "WORKSPACE_VECTOR_STORE_DISTANCE",
     "WORKSPACE_VECTOR_STORE_ON_DISK", "WORKSPACE_VECTOR_STORE_MAX_VECTORS",
     "WORKSPACE_VECTOR_STORE_USERNAME", "WORKSPACE_VECTOR_STORE_PASSWORD" >>

\* the variables only the collection factories read
OrchestratorVars ==
  << "REFLECTION_VECTOR_STORE_COLLECTION", "USE_WORKSPACE_MEMORY" >>

EnvOrder == ResolverVars \o OrchestratorVars

EnvVars == {EnvOrder[i] : i \in 1..Len(EnvOrder)}

\* the value an unassigned variable reads as
EnvUnset ==
  [v \in EnvVars |->
     IF v = "VECTOR_STORE_COLLECTION" THEN Txt(knowledge_memory) ELSE Undefined]

BackendTypes == {"in-memory", "qdrant", "milvus", "chroma", "pinecone"}

\* the values each variable may be assigned
EnvValues(v) ==
  CASE v = "VECTOR_STORE_TYPE" -> {Str(s) : s \in BackendTypes \cup {"weaviate"}}
    [] v = "WORKSPACE_VECTOR_STORE_TYPE" -> {Str(s) : s \in BackendTypes}
    [] v = "VECTOR_STORE_HOST" -> {Str(""), Str("localhost")}
    [] v = "WORKSPACE_VECTOR_STORE_HOST" -> {Str("ws-host")}
    [] v = "VECTOR_STORE_URL" -> {Str("http://db:6333")}
    [] v = "WORKSPACE_VECTOR_STORE_URL" -> {Str("http://ws:6333")}
    [] v = "VECTOR_STORE_PORT" -> {NaN, Num(6333)}
    [] v = "WORKSPACE_VECTOR_STORE_PORT" -> {NaN, Num(7333)}
    [] v = "VECTOR_STORE_API_KEY" -> {Str(""), Str("key")}
    [] v = "WORKSPACE_VECTOR_STORE_API_KEY" -> {Str("ws-key")}
    [] v = "VECTOR_STORE_COLLECTION" -> {Txt(<<>>), Txt(<<"d">>), Txt(<<"a", " ">>)}
    [] v = "WORKSPACE_VECTOR_STORE_COLLECTION" -> {Txt(<<"w">>)}
    [] v = "VECTOR_STORE_DIMENSION" -> {NaN, Num(0), Num(-1), Num(768)}
    [] v = "WORKSPACE_VECTOR_STORE_DIMENSION" -> {NaN, Num(0), Num(384)}
    [] v = "VECTOR_STORE_DISTANCE" ->
         {Txt(<<"L", "2">>), Txt(<<"D", "o", "t">>), Txt(<<"x">>)}
    [] v = "WORKSPACE_VECTOR_STORE_DISTANCE" -> {Txt(<<"I", "P">>)}
    [] v = "VECTOR_STORE_ON_DISK" -> {Bool(TRUE)}
    [] v = "WORKSPACE_VECTOR_STORE_ON_DISK" -> {Bool(TRUE)}
    [] v = "VECTOR_STORE_MAX_VECTORS" -> {NaN, Num(500)}
    [] v = "WORKSPACE_VECTOR_STORE_MAX_VECTORS" -> {NaN, Num(50)}
    [] v = "VECTOR_STORE_USERNAME" -> {Str("user")}
    [] v = "WORKSPACE_VECTOR_STORE_USERNAME" -> {Str("ws-user")}
    [] v = "VECTOR_STORE_PASSWORD" -> {Str("pw")}
    [] v = "WORKSPACE_VECTOR_STORE_PASSWORD" -> {Str("ws-pw")}
    [] v = "PINECONE_NAMESPACE" ->
         {Txt(<<>>), Txt(<<"n", "s">>),
          Txt(<<"w", "o", "r", "k", "s", "p", "a", "c", "e">>)}
    [] v = "PINECONE_METRIC" -> {Txt(<<"e", "u", "c", "l", "i", "d", "e", "a", "n">>)}
    [] v = "REFLECTION_VECTOR_STORE_COLLECTION" ->
         {Txt(<<" ">>), Txt(<<"r">>), Txt(<<>>)}
    [] v = "USE_WORKSPACE_MEMORY" -> {Bool(TRUE)}

\* agentConfig arguments: absent, without embedding, embedding not an object,
\* and embedding objects with each kind of `dimensions`
AgentConfigs ==
  { Undefined,
    Obj([embedding |-> Undefined]),
    Obj([embedding |-> Str("openai")]) }
  \cup
  { Obj([embedding |-> Obj([dimensions |-> d])]) :
      d \in {Undefined, Num(0), Num(-3), Num(768), Half(1), Str("768")} }

\* how many inputs (environment variables, agentConfig) differ from unset
MaxSet == 3

\* ------------------------------------------------------------------------
\* getVectorStoreConfigFromEnv and getWorkspaceVectorStoreConfigFromEnv
\* ------------------------------------------------------------------------

UpperCase ==
  <<"A","B","C","D","E","F","G","H","I","J","K","L","M",
    "N","O","P","Q","R","S","T","U","V","W","X","Y","Z">>

LowerCase ==
  <<"a","b","c","d","e","f","g","h","i","j","k","l","m",
    "n","o","p","q","r","s","t","u","v","w","x","y","z">>

\* String.prototype.toLowerCase on a character sequence
ToLowerCase(cs) ==
  [i \in 1..Len(cs) |->
     IF \E k \in 1..26 : UpperCase[k] = cs[i]
     THEN LowerCase[CHOOSE k \in 1..26 : UpperCase[k] = cs[i]]
     ELSE cs[i]]

\* `v !== undefined && !Number.isNaN(v) ? v : fallback`
DefinedNumberOr(v, fallback) ==
  IF v # Undefined /\ ~IsNaN(v) THEN v ELSE fallback

\* the dimension read from VECTOR_STORE_DIMENSION
EnvDimension(e) ==
  DefinedNumberOr(e.VECTOR_STORE_DIMENSION, Num(DefaultDimension))

\* the maxVectors read from VECTOR_STORE_MAX_VECTORS
EnvMaxVectors(e) ==
  DefinedNumberOr(e.VECTOR_STORE_MAX_VECTORS, Num(DefaultMaxVectors))

\* the workspace dimension: workspace variable, else default variable, else 1536
WorkspaceEnvDimension(e) ==
  DefinedNumberOr(e.WORKSPACE_VECTOR_STORE_DIMENSION, EnvDimension(e))

WorkspaceEnvMaxVectors(e) ==
  DefinedNumberOr(e.WORKSPACE_VECTOR_STORE_MAX_VECTORS, EnvMaxVectors(e))

\* agentConfig?.embedding
EmbeddingOf(agent) ==
  IF agent.t = "object" /\ "embedding" \in DOMAIN agent.fields
  THEN agent.fields.embedding
  ELSE Undefined

\* a variant: the agent configuration is never consulted
OverrideDimensionIgnored(dimension, agent) == dimension

\* the override of the dimension by agentConfig.embedding.dimensions
OverrideDimension(dimension, agent) ==
  LET embedding == EmbeddingOf(agent) IN
  IF /\ Truthy(embedding)
     /\ embedding.t = "object"
     /\ "dimensions" \in DOMAIN embedding.fields
     /\ Truthy(embedding.fields.dimensions)
  THEN LET embeddingDimension == embedding.fields.dimensions IN
       IF IsNumber(embeddingDimension) /\ GreaterThanZero(embeddingDimension)
       THEN embeddingDimension
       ELSE dimension
  ELSE dimension

\* `Number.isNaN(env.VECTOR_STORE_PORT) ? undefined : env.VECTOR_STORE_PORT`
EnvPort(e) ==
  IF IsNaN(e.VECTOR_STORE_PORT) THEN Undefined ELSE e.VECTOR_STORE_PORT

\* the nested conditional of the workspace resolver
WorkspaceEnvPort(e) ==
  IF IsNaN(e.WORKSPACE_VECTOR_STORE_PORT)
  THEN EnvPort(e)
  ELSE e.WORKSPACE_VECTOR_STORE_PORT

\* a variant: only the url is looked at
MissingUrlOnly(url, host) == ~Truthy(url)

\* `!url && !host`
MissingConnection(url, host) == ~Truthy(url) /\ ~Truthy(host)

\* a variant: the substituted in-memory object carries no marker
FallbackConfigUntagged(collectionName, dimension, maxVectors, from) ==
  [ type |-> Str("in-memory"),
    collectionName |-> collectionName,
    dimension |-> dimension,
    maxVectors |-> maxVectors ]

\* the in-memory object returned with the fallback marker
FallbackConfig(collectionName, dimension, maxVectors, from) ==
  [ type |-> Str("in-memory"),
    collectionName |-> collectionName,
    dimension |-> dimension,
    maxVectors |-> maxVectors,
    _fallbackFrom |-> Str(from) ]

\* a variant: the plain in-memory object carries a marker as well
InMemoryConfigTagged(collectionName, dimension, maxVectors) ==
  [ type |-> Str("in-memory"),
    collectionName |-> collectionName,
    dimension |-> dimension,
    maxVectors |-> maxVectors,
    _fallbackFrom |-> Str("unknown") ]

InMemoryConfig(collectionName, dimension, maxVectors) ==
  [ type |-> Str("in-memory"),
    collectionName |-> collectionName,
    dimension |-> dimension,
    maxVectors |-> maxVectors ]

cosine == <<"c", "o", "s", "i", "n", "e">>

\* the switch that maps the distance variable to ChromaDB's names
ChromaDistance(envDistance) ==
  IF Truthy(envDistance)
  THEN LET d == ToLowerCase(envDistance.chars) IN
       CASE d = cosine -> Txt(cosine)
         [] d \in {<<"e","u","c","l","i","d","e","a","n">>, <<"l","2">>} ->
              Txt(<<"l","2">>)
         [] d \in {<<"d","o","t">>, <<"i","p">>} -> Txt(<<"i","p">>)
         [] OTHER -> Txt(cosine)
  ELSE Txt(cosine)

getVectorStoreConfigFromEnv(e, agent) ==
  LET storeType == e.VECTOR_STORE_TYPE
      collectionName == e.VECTOR_STORE_COLLECTION
      dimension == OverrideDimension(EnvDimension(e), agent)
      maxVectors == EnvMaxVectors(e)
      host == e.VECTOR_STORE_HOST
      url == e.VECTOR_STORE_URL
      port == EnvPort(e)
  IN
  CASE storeType = Str("qdrant") ->
         IF MissingConnection(url, host)
         THEN FallbackConfig(collectionName, dimension, maxVectors, "qdrant")
         ELSE [ type |-> Str("qdrant"),
                collectionName |-> collectionName,
                dimension |-> dimension,
                url |-> url,
                host |-> host,
                port |-> port,
                apiKey |-> e.VECTOR_STORE_API_KEY,
                distance |-> e.VECTOR_STORE_DISTANCE,
                onDisk |-> e.VECTOR_STORE_ON_DISK ]
    [] storeType = Str("milvus") ->
         IF MissingConnection(url, host)
         THEN FallbackConfig(collectionName, dimension, maxVectors, "milvus")
         ELSE [ type |-> Str("milvus"),
                collectionName |-> collectionName,
                dimension |-> dimension,
                url |-> url,
                host |-> host,
                port |-> port,
                username |-> e.VECTOR_STORE_USERNAME,
                password |-> e.VECTOR_STORE_PASSWORD,
                token |-> e.VECTOR_STORE_API_KEY ]
    [] storeType = Str("chroma") ->
         IF MissingConnection(url, host)
         THEN FallbackConfig(collectionName, dimension, maxVectors, "chroma")
         ELSE [ type |-> Str("chroma"),
                collectionName |-> collectionName,
                dimension |-> dimension,
                url |-> url,
                host |-> host,
                port |-> port,
                headers |-> Undefined,
                distance |-> ChromaDistance(e.VECTOR_STORE_DISTANCE) ]
    [] storeType = Str("pinecone") ->
         LET apiKey == e.VECTOR_STORE_API_KEY
             metric == Or(e.PINECONE_METRIC, e.VECTOR_STORE_DISTANCE)
         IN
         IF ~Truthy(apiKey)
         THEN FallbackConfig(collectionName, dimension, maxVectors, "pinecone")
         ELSE [ type |-> Str("pinecone"),
                collectionName |-> collectionName,
                dimension |-> dimension,
                apiKey |-> apiKey,
                indexName |-> collectionName,
                namespace |-> e.PINECONE_NAMESPACE,
                metric |-> metric ]
    [] OTHER -> InMemoryConfig(collectionName, dimension, maxVectors)

\* a variant: the workspace store uses the namespace of the default store
WorkspaceNamespaceShared(namespace) == namespace

\* `namespace ? `${namespace}-workspace` : 'workspace'`
WorkspaceNamespace(namespace) ==
  IF Truthy(namespace)
  THEN Txt(namespace.chars
             \o <<"-", "w", "o", "r", "k", "s", "p", "a", "c", "e">>)
  ELSE Txt(<<"w", "o", "r", "k", "s", "p", "a", "c", "e">>)

getWorkspaceVectorStoreConfigFromEnv(e, agent) ==
  LET storeType == Or(e.WORKSPACE_VECTOR_STORE_TYPE, e.VECTOR_STORE_TYPE)
      collectionName ==
        Or(e.WORKSPACE_VECTOR_STORE_COLLECTION, Txt(workspace_memory))
      dimension == OverrideDimension(WorkspaceEnvDimension(e), agent)
      maxVectors == WorkspaceEnvMaxVectors(e)
      host == Or(e.WORKSPACE_VECTOR_STORE_HOST, e.VECTOR_STORE_HOST)
      url == Or(e.WORKSPACE_VECTOR_STORE_URL, e.VECTOR_STORE_URL)
      port == WorkspaceEnvPort(e)
  IN
  CASE storeType = Str("qdrant") ->
         IF MissingConnection(url, host)
         THEN FallbackConfig(collectionName, dimension, maxVectors,
                             "qdrant-workspace")
         ELSE [ type |-> Str("qdrant"),
                collectionName |-> collectionName,
                dimension |-> dimension,
                url |-> url,
                host |-> host,
                port |-> port,
                apiKey |-> Or(e.WORKSPACE_VECTOR_STORE_API_KEY,
                              e.VECTOR_STORE_API_KEY),
                distance |-> Or(e.WORKSPACE_VECTOR_STORE_DISTANCE,
                                e.VECTOR_STORE_DISTANCE),
                onDisk |-> e.WORKSPACE_VECTOR_STORE_ON_DISK ]
    [] storeType = Str("milvus") ->
         IF MissingConnection(url, host)
         THEN FallbackConfig(collectionName, dimension, maxVectors,
                             "milvus-workspace")
         ELSE [ type |-> Str("milvus"),
                collectionName |-> collectionName,
                dimension |-> dimension,
                url |-> url,
                host |-> host,
                port |-> port,
                username |-> Or(e.WORKSPACE_VECTOR_STORE_USERNAME,
                                e.VECTOR_STORE_USERNAME),
                password |-> Or(e.WORKSPACE_VECTOR_STORE_PASSWORD,
                                e.VECTOR_STORE_PASSWORD),
                token |-> Or(e.WORKSPACE_VECTOR_STORE_API_KEY,
                             e.VECTOR_STORE_API_KEY) ]
    [] storeType = Str("chroma") ->
         IF MissingConnection(url, host)
         THEN FallbackConfig(collectionName, dimension, maxVectors,
                             "chroma-workspace")
         ELSE [ type |-> Str("chroma"),
                collectionName |-> collectionName,
                dimension |-> dimension,
                url |-> url,
                host |-> host,
                port |-> port,
                headers |-> Undefined,
                distance |-> ChromaDistance(
                               Or(e.WORKSPACE_VECTOR_STORE_DISTANCE,
                                  e.VECTOR_STORE_DISTANCE)) ]
    [] storeType = Str("pinecone") ->
         LET apiKey == e.VECTOR_STORE_API_KEY
             namespace == e.PINECONE_NAMESPACE
             metric == Or(e.PINECONE_METRIC, e.VECTOR_STORE_DISTANCE)
         IN
         IF ~Truthy(apiKey)
         THEN FallbackConfig(collectionName, dimension, maxVectors,
                             "pinecone-workspace")
         ELSE [ type |-> Str("pinecone"),
                collectionName |-> collectionName,
                dimension |-> dimension,
                apiKey |-> apiKey,
                indexName |-> collectionName,
                namespace |-> WorkspaceNamespace(namespace),
                metric |-> metric ]
    [] OTHER -> InMemoryConfig(collectionName, dimension, maxVectors)

\* ------------------------------------------------------------------------
\* VectorStoreSchema (zod): the validator
\* ------------------------------------------------------------------------
\* A parse result is the set of issues and whether the parse was aborted.  A
\* value of the wrong type aborts; a failed check (min, int, positive, url,
\* strict keys) only adds an issue.  superRefine runs unless the object
\* parse was aborted.

Issue(path, code) == [path |-> path, code |-> code]

Ok == [issues |-> {}, aborted |-> FALSE]

Dirty(path, code) == [issues |-> {Issue(path, code)}, aborted |-> FALSE]

Abort(path, code) == [issues |-> {Issue(path, code)}, aborted |-> TRUE]

Merge(results) ==
  [ issues |-> UNION {r.issues : r \in results},
    aborted |-> \E r \in results : r.aborted ]

\* config[key], undefined when the key is absent
Field(c, key) == IF key \in DOMAIN c THEN c[key] ELSE Undefined

IsEmptyString(v) == IF IsAtom(v) THEN v.s = "" ELSE v.chars = <<>>

\* the strings `new URL(...)` accepts, among the strings of the model
WellFormedUrls == {"http://db:6333", "http://ws:6333"}

\* z.string()
ZString(path, v) ==
  IF IsString(v) THEN Ok ELSE Abort(path, "invalid_type")

\* z.string().min(1)
ZStringMin1(path, v) ==
  IF ~IsString(v) THEN Abort(path, "invalid_type")
  ELSE IF IsEmptyString(v) THEN Dirty(path, "too_small")
  ELSE Ok

\* z.string().url()
ZStringUrl(path, v) ==
  IF ~IsString(v) THEN Abort(path, "invalid_type")
  ELSE IF IsAtom(v) /\ v.s \in WellFormedUrls THEN Ok
  ELSE Dirty(path, "invalid_string")

\* z.number().int().positive()
ZNumberIntPositive(path, v) ==
  IF ~IsFinite(v) THEN Abort(path, "invalid_type")
  ELSE [ issues |->
           (IF ~IsInteger(v) THEN {Issue(path, "not_integer")} ELSE {})
           \cup (IF ~GreaterThanZero(v) THEN {Issue(path, "too_small")} ELSE {}),
         aborted |-> FALSE ]

\* z.boolean()
ZBoolean(path, v) ==
  IF v.t = "boolean" THEN Ok ELSE Abort(path, "invalid_type")

\* z.enum([...])
ZEnum(path, v, values) ==
  IF ~IsString(v) THEN Abort(path, "invalid_type")
  ELSE IF IsText(v) /\ v.chars \in values THEN Ok
  ELSE Abort(path, "invalid_enum_value")

\* z.record(...)
ZRecord(path, v) ==
  IF v.t = "object" THEN Ok ELSE Abort(path, "invalid_type")

\* .optional() and .default(): an undefined value is accepted
Optional(v, result) == IF v = Undefined THEN Ok ELSE result

\* DISTANCE_METRICS of ./constants.js
DISTANCE_METRICS ==
  { <<"C","o","s","i","n","e">>, <<"E","u","c","l","i","d">>,
    <<"D","o","t">>, <<"M","a","n","h","a","t","t","a","n">> }

ChromaDistances ==
  { cosine, <<"l","2">>, <<"e","u","c","l","i","d","e","a","n">>,
    <<"i","p">>, <<"d","o","t">> }

PineconeMetrics ==
  { cosine, <<"e","u","c","l","i","d","e","a","n">>,
    <<"d","o","t","p","r","o","d","u","c","t">> }

BaseKeys ==
  {"collectionName", "dimension", "maxConnections",
   "connectionTimeoutMillis", "options"}

\* BaseVectorStoreSchema
BaseVectorStoreSchema(c) ==
  Merge({
    ZStringMin1("collectionName", Field(c, "collectionName")),
    Optional(Field(c, "dimension"),
             ZNumberIntPositive("dimension", Field(c, "dimension"))),
    Optional(Field(c, "maxConnections"),
             ZNumberIntPositive("maxConnections", Field(c, "maxConnections"))),
    Optional(Field(c, "connectionTimeoutMillis"),
             ZNumberIntPositive("connectionTimeoutMillis",
                                Field(c, "connectionTimeoutMillis"))),
    Optional(Field(c, "options"), ZRecord("options", Field(c, "options"))) })

\* a variant: unknown keys are stripped instead of reported
StrictIgnored(c, keys) == Ok

\* .strict(): keys outside the shape are reported
Strict(c, keys) ==
  IF DOMAIN c \subseteq keys THEN Ok ELSE Dirty("", "unrecognized_keys")

InMemoryBackendSchema(c) ==
  Merge({
    BaseVectorStoreSchema(c),
    Optional(Field(c, "maxVectors"),
             ZNumberIntPositive("maxVectors", Field(c, "maxVectors"))),
    Strict(c, BaseKeys \cup {"type", "maxVectors"}) })

QdrantBackendSchema(c) ==
  Merge({
    BaseVectorStoreSchema(c),
    Optional(Field(c, "url"), ZStringUrl("url", Field(c, "url"))),
    Optional(Field(c, "host"), ZString("host", Field(c, "host"))),
    Optional(Field(c, "port"), ZNumberIntPositive("port", Field(c, "port"))),
    Optional(Field(c, "apiKey"), ZString("apiKey", Field(c, "apiKey"))),
    Optional(Field(c, "onDisk"), ZBoolean("onDisk", Field(c, "onDisk"))),
    Optional(Field(c, "path"), ZString("path", Field(c, "path"))),
    Optional(Field(c, "distance"),
             ZEnum("distance", Field(c, "distance"), DISTANCE_METRICS)),
    Strict(c, BaseKeys \cup {"type", "url", "host", "port", "apiKey",
                             "onDisk", "path", "distance"}) })

MilvusBackendSchema(c) ==
  Merge({
    BaseVectorStoreSchema(c),
    Optional(Field(c, "url"), ZStringUrl("url", Field(c, "url"))),
    Optional(Field(c, "host"), ZString("host", Field(c, "host"))),
    Optional(Field(c, "port"), ZNumberIntPositive("port", Field(c, "port"))),
    Optional(Field(c, "username"), ZString("username", Field(c, "username"))),
    Optional(Field(c, "password"), ZString("password", Field(c, "password"))),
    Optional(Field(c, "token"), ZString("token", Field(c, "token"))),
    Strict(c, BaseKeys \cup {"type", "url", "host", "port", "username",
                             "password", "token"}) })

ChromaBackendSchema(c) ==
  Merge({
    BaseVectorStoreSchema(c),
    Optional(Field(c, "url"), ZStringUrl("url", Field(c, "url"))),
    Optional(Field(c, "host"), ZString("host", Field(c, "host"))),
    Optional(Field(c, "port"), ZNumberIntPositive("port", Field(c, "port"))),
    Optional(Field(c, "ssl"), ZBoolean("ssl", Field(c, "ssl"))),
    Optional(Field(c, "headers"), ZRecord("headers", Field(c, "headers"))),
    Optional(Field(c, "distance"),
             ZEnum("distance", Field(c, "distance"), ChromaDistances)),
    Optional(Field(c, "path"), ZString("path", Field(c, "path"))),
    Strict(c, BaseKeys \cup {"type", "url", "host", "port", "ssl", "headers",
                             "distance", "path"}) })

PineconeBackendSchema(c) ==
  Merge({
    BaseVectorStoreSchema(c),
    ZStringMin1("apiKey", Field(c, "apiKey")),
    ZStringMin1("indexName", Field(c, "indexName")),
    Optional(Field(c, "namespace"), ZString("namespace", Field(c, "namespace"))),
    Optional(Field(c, "metric"),
             ZEnum("metric", Field(c, "metric"), PineconeMetrics)),
    Optional(Field(c, "podType"), ZString("podType", Field(c, "podType"))),
    Optional(Field(c, "replicas"),
             ZNumberIntPositive("replicas", Field(c, "replicas"))),
    Optional(Field(c, "sourceCollection"),
             ZString("sourceCollection", Field(c, "sourceCollection"))),
    Strict(c, BaseKeys \cup {"type", "apiKey", "indexName", "namespace",
                             "metric", "podType", "replicas",
                             "sourceCollection"}) })

\* the characters of /^[a-zA-Z0-9_-]+$/
NameChars ==
  {UpperCase[k] : k \in 1..26} \cup {LowerCase[k] : k \in 1..26}
  \cup {"0","1","2","3","4","5","6","7","8","9","_","-"}

\* /^[a-zA-Z0-9_-]+$/.test(name)
WellFormedName(v) ==
  /\ IsText(v)
  /\ v.chars # <<>>
  /\ \A i \in 1..Len(v.chars) : v.chars[i] \in NameChars

\* a variant: the callback without the collection-name test
SuperRefineWithoutName(c) ==
  LET type == Field(c, "type")
      missing == ~Truthy(Field(c, "url")) /\ ~Truthy(Field(c, "host"))
  IN
  (IF type \in {Str("qdrant"), Str("milvus"), Str("chroma")} /\ missing
   THEN {Issue("url", "custom")} ELSE {})
  \cup
  (IF type = Str("pinecone") /\ ~Truthy(Field(c, "apiKey"))
   THEN {Issue("apiKey", "custom")} ELSE {})
  \cup
  (IF type = Str("pinecone") /\ ~Truthy(Field(c, "indexName"))
   THEN {Issue("indexName", "custom")} ELSE {})

\* the superRefine callback of BackendConfigSchema
SuperRefine(c) ==
  LET type == Field(c, "type")
      missing == ~Truthy(Field(c, "url")) /\ ~Truthy(Field(c, "host"))
  IN
  (IF type \in {Str("qdrant"), Str("milvus"), Str("chroma")} /\ missing
   THEN {Issue("url", "custom")} ELSE {})
  \cup
  (IF type = Str("pinecone") /\ ~Truthy(Field(c, "apiKey"))
   THEN {Issue("apiKey", "custom")} ELSE {})
  \cup
  (IF type = Str("pinecone") /\ ~Truthy(Field(c, "indexName"))
   THEN {Issue("indexName", "custom")} ELSE {})
  \cup
  (IF ~WellFormedName(Field(c, "collectionName"))
   THEN {Issue("collectionName", "custom")} ELSE {})

\* z.discriminatedUnion('type', [...]): the variant the type tag selects
DiscriminatedUnion(c) ==
  LET type == Field(c, "type") IN
  CASE type = Str("in-memory") -> InMemoryBackendSchema(c)
    [] type = Str("qdrant") -> QdrantBackendSchema(c)
    [] type = Str("milvus") -> MilvusBackendSchema(c)
    [] type = Str("chroma") -> ChromaBackendSchema(c)
    [] type = Str("pinecone") -> PineconeBackendSchema(c)
    [] OTHER -> Abort("type", "invalid_union_discriminator")

\* a variant: the refinement is also skipped when a field check failed
BackendConfigSchemaFirstStage(c) ==
  LET inner == DiscriminatedUnion(c) IN
  IF inner.issues # {} THEN inner.issues ELSE SuperRefine(c)

\* VectorStoreSchema.safeParse(config): the set of issues reported
BackendConfigSchema(c) ==
  LET inner == DiscriminatedUnion(c) IN
  IF inner.aborted THEN inner.issues ELSE inner.issues \cup SuperRefine(c)

VectorStoreSchema(c) == BackendConfigSchema(c)

\* ------------------------------------------------------------------------
\* State
\* ------------------------------------------------------------------------

VARIABLES
  env,          \* the process environment the module reads through `env`
  agentConfig,  \* the agentConfig argument the callers pass
  config,       \* what getVectorStoreConfigFromEnv last returned
  wsConfig,     \* what getWorkspaceVectorStoreConfigFromEnv last returned
  parsed,       \* what VectorStoreSchema.safeParse last reported
  cache,        \* the ServiceCache: one entry per key, pending or ready
  attempts,     \* the factory invocations, each with the manager it created
  calls         \* the calls of the exported factories, in the order made

resolverVars == <<env, agentConfig, config, wsConfig, parsed>>

factoryVars == <<cache, attempts, calls>>

vars == <<env, agentConfig, config, wsConfig, parsed, cache, attempts, calls>>

\* no call of the resolver since the inputs last changed
NoConfig == [t |-> "none"]

\* safeParse has not been called
NoParse == [t |-> "none"]

\* the positions in EnvOrder of the variables that differ from unset
Assigned == {i \in 1..Len(EnvOrder) : env[EnvOrder[i]] # EnvUnset[EnvOrder[i]]}

\* the number of inputs that differ from unset
NumSet == Cardinality(Assigned) + (IF agentConfig # Undefined THEN 1 ELSE 0)

\* the inputs are set up before the resolver is called
Unresolved == config = NoConfig /\ wsConfig = NoConfig

\* variables are assigned in the order of EnvOrder, agentConfig last: every
\* environment is built along one path
Assignable ==
  IF Unresolved /\ NumSet < MaxSet /\ agentConfig = Undefined
  THEN {i \in 1..Len(EnvOrder) : \A j \in Assigned : j < i}
  ELSE {}

Init ==
  /\ env = EnvUnset
  /\ agentConfig = Undefined
  /\ config = NoConfig
  /\ wsConfig = NoConfig
  /\ parsed = NoParse
  /\ cache = {}
  /\ attempts = <<>>
  /\ calls = <<>>

\* process.env.<name> = value, for a variable the resolvers read
SetEnv ==
  \E i \in Assignable \cap (1..Len(ResolverVars)) :
    \E val \in EnvValues(EnvOrder[i]) :
      /\ env' = [env EXCEPT ![EnvOrder[i]] = val]
      /\ UNCHANGED <<agentConfig, config, wsConfig, parsed, factoryVars>>

\* the caller holds an agent configuration
SetAgentConfig ==
  \E a \in AgentConfigs \ {Undefined} :
    /\ Unresolved
    /\ NumSet < MaxSet
    /\ agentConfig = Undefined
    /\ agentConfig' = a
    /\ UNCHANGED <<env, config, wsConfig, parsed, factoryVars>>

\* one resolver call is observed per environment
ResolveDefault ==
  /\ Unresolved
  /\ config' = getVectorStoreConfigFromEnv(env, agentConfig)
  /\ UNCHANGED <<env, agentConfig, wsConfig, parsed, factoryVars>>

ResolveWorkspace ==
  /\ Unresolved
  /\ wsConfig' = getWorkspaceVectorStoreConfigFromEnv(env, agentConfig)
  /\ UNCHANGED <<env, agentConfig, config, parsed, factoryVars>>

NextResolve ==
  \/ SetEnv
  \/ SetAgentConfig
  \/ ResolveDefault
  \/ ResolveWorkspace

SpecResolve == Init /\ [][NextResolve]_vars

\* ------------------------------------------------------------------------
\* VectorStoreSchema applied to configs a caller writes
\* ------------------------------------------------------------------------

\* collection names: absent, empty, one character, an ill-formed one and a
\* well-formed one over the whole alphabet
NameValues ==
  { Undefined, Txt(<<>>), Txt(<<"a">>), Txt(<<"a", " ">>),
    Txt(<<"A", "-", "_", "9">>) }

\* dimensions: absent, valid, zero, not an integer, not a number
DimensionValues == {Undefined, Num(1536), Num(0), Half(1), Str("768")}

\* the fields every config has
BaseConfigs(type) ==
  { [type |-> Str(type), collectionName |-> n, dimension |-> d] :
      n \in NameValues, d \in DimensionValues }

\* record b extended with the fields of record x
With(b, x) ==
  [k \in DOMAIN b \cup DOMAIN x |-> IF k \in DOMAIN x THEN x[k] ELSE b[k]]

\* configs with url and host, as qdrant, milvus and chroma take them
ConnectionConfigs(type) ==
  { With(b, [url |-> u, host |-> h]) :
      b \in BaseConfigs(type),
      u \in {Undefined, Str(""), Str("http://db:6333")},
      h \in {Undefined, Str("localhost")} }

InMemoryConfigs ==
  { With(b, x) :
      b \in BaseConfigs("in-memory"),
      x \in { [maxVectors |-> Undefined], [maxVectors |-> Num(10000)],
              [maxVectors |-> Num(0)],
              [maxVectors |-> Num(10000), _fallbackFrom |-> Str("qdrant")] } }

PineconeConfigs ==
  { With(b, [apiKey |-> k, indexName |-> i, metric |-> m]) :
      b \in BaseConfigs("pinecone"),
      k \in {Undefined, Str(""), Str("key")},
      i \in {Undefined, Txt(<<>>), Txt(<<"a">>)},
      m \in {Undefined, Txt(cosine), Txt(<<"x">>)} }

\* the configs handed to the validator
ValidatorConfigs ==
  InMemoryConfigs \cup ConnectionConfigs("qdrant")
  \cup ConnectionConfigs("milvus") \cup ConnectionConfigs("chroma")
  \cup PineconeConfigs \cup BaseConfigs("weaviate")

\* a caller writes a config object
NewConfig ==
  /\ config = NoConfig
  /\ \E c \in ValidatorConfigs : config' = c
  /\ UNCHANGED <<env, agentConfig, wsConfig, parsed, factoryVars>>

\* VectorStoreSchema.safeParse(config)
SafeParse ==
  /\ config # NoConfig
  /\ parsed = NoParse
  /\ parsed' = [t |-> "parsed", issues |-> VectorStoreSchema(config)]
  /\ UNCHANGED <<env, agentConfig, config, wsConfig, factoryVars>>

NextValidate ==
  \/ NewConfig
  \/ SafeParse

SpecValidate == Init /\ [][NextValidate]_vars

\* ------------------------------------------------------------------------
\* The managers and the service cache (imported; not part of this file)
\* ------------------------------------------------------------------------

Null == [t |-> "null"]

\* the store a manager hands out for a slot
Store(manager, slot) == [t |-> "store", manager |-> manager, slot |-> slot]

\* the slots a manager opens: knowledge always, reflection when its
\* collection name is non-blank after trimming, workspace (multi only) when
\* USE_WORKSPACE_MEMORY is set; the single manager has its one store
EnabledSlots(kind, e) ==
  IF kind = "single" THEN {"store"}
  ELSE {"knowledge"}
       \cup (IF Trim(Or(e.REFLECTION_VECTOR_STORE_COLLECTION, Txt(<<>>)).chars) # <<>>
             THEN {"reflection"} ELSE {})
       \cup (IF kind = "multi" /\ Truthy(e.USE_WORKSPACE_MEMORY)
             THEN {"workspace"} ELSE {})

\* the stores getStore can return after connect() resolved: getStore is
\* typed `VectorStore | null`, so the store of an enabled slot may be
\* missing (the model lets one store at a time be missing); connect() of
\* the single manager resolves with its store
ConnectedStores(slots) ==
  IF slots = {"store"} THEN {slots}
  ELSE {slots} \cup {slots \ {x} : x \in slots}

\* manager.getStore(name)
getStore(a, id, name) ==
  IF name \in a.stores THEN Store(id, name) ELSE Null

\* createServiceKey(name, params): a canonical key of the name and the fields
createServiceKey(service, params) == [service |-> service, params |-> params]

\* the key of a factory call that does not go through the cache
NoKey == [service |-> "none"]

Settled == {"returned", "thrown"}

\* getOrCreate after its factory settled: a success makes the entry ready, a
\* failure clears it
CacheAfterSettle(id, a) ==
  IF a.pc \notin Settled THEN cache
  ELSE IF a.pc = "returned"
  THEN {IF en.attempt = id THEN [en EXCEPT !.state = "ready"] ELSE en : en \in cache}
  ELSE {en \in cache : en.attempt # id}

\* ------------------------------------------------------------------------
\* The factories
\* ------------------------------------------------------------------------

\* how many factory calls a run makes
MaxCalls == 3

\* the attempts of the same key that are under construction
InFlight(key) ==
  {i \in 1..Len(attempts) : attempts[i].key = key /\ attempts[i].pc \notin Settled}

\* a factory invocation up to its first await.  `guarded` says whether
\* connect() runs inside the try block.
Attempt(kind, key, e, guarded, pc) ==
  [ kind |-> kind,
    key |-> key,
    guarded |-> guarded,
    pc |-> pc,
    slots |-> IF pc = "connecting" THEN EnabledSlots(kind, e) ELSE {},
    stores |-> {},
    requested |-> {},
    connects |-> IF pc = "connecting" THEN 1 ELSE 0,
    disconnects |-> 0,
    cleaned |-> FALSE,
    teardown |-> "none",
    disconnected |-> FALSE,
    error |-> "none",
    result |-> Null ]

\* manager.isConnected(): connect() resolved and the object was returned,
\* and nobody has called disconnect() on it since
isConnected(a) == a.pc = "returned" /\ ~a.disconnected

\* the record of a call of an exported factory
Call(fn, key, e, attempt, how, pc, result) ==
  [ fn |-> fn,
    key |-> key,
    reflection |-> e.REFLECTION_VECTOR_STORE_COLLECTION,
    workspace |-> e.USE_WORKSPACE_MEMORY,
    attempt |-> attempt,
    how |-> how,
    inFlightAtStart |-> InFlight(key),
    priorAttempts |-> Len(attempts),
    pc |-> pc,
    error |-> "none",
    result |-> result ]

\* serviceCache.getOrCreate(key, factory): a ready entry is returned, a
\* pending one is awaited, and otherwise the factory is invoked and its
\* promise registered
getOrCreate(fn, key, factory) ==
  LET entries == {en \in cache : en.key = key} IN
  IF entries # {}
  THEN LET en == CHOOSE x \in entries : TRUE IN
       /\ calls' =
            Append(calls,
                   IF en.state = "ready"
                   THEN Call(fn, key, env, en.attempt, "cached", "resolved",
                             attempts[en.attempt].result)
                   ELSE Call(fn, key, env, en.attempt, "joined", "awaiting", Null))
       /\ UNCHANGED <<cache, attempts>>
  ELSE /\ attempts' = Append(attempts, factory)
       /\ cache' = cache \cup {[key |-> key, state |-> "pending",
                                attempt |-> Len(attempts) + 1]}
       /\ calls' = Append(calls, Call(fn, key, env, Len(attempts) + 1,
                                      "invoked", "awaiting", Null))

\* the factory is invoked without consulting the cache
Uncached(fn, key, factory) ==
  /\ attempts' = Append(attempts, factory)
  /\ calls' = Append(calls, Call(fn, key, env, Len(attempts) + 1,
                                 "invoked", "awaiting", Null))
  /\ UNCHANGED cache

\* a variant: the raw value decides, so a blank name counts as a name
ReflectionCollectionUntrimmed(e) ==
  Or(e.REFLECTION_VECTOR_STORE_COLLECTION, Txt(<<>>)).chars

\* `(env.REFLECTION_VECTOR_STORE_COLLECTION || '').trim()`
ReflectionCollection(e) ==
  Trim(Or(e.REFLECTION_VECTOR_STORE_COLLECTION, Txt(<<>>)).chars)

\* the cache key of createDualCollectionVectorStoreFromEnv
DualCacheKey(e, cfg) ==
  createServiceKey("dualCollectionVectorStore",
    [ type |-> cfg.type,
      collection |-> cfg.collectionName,
      reflectionCollection |-> Or(e.REFLECTION_VECTOR_STORE_COLLECTION, Txt(<<>>)),
      dimension |-> cfg.dimension ])

\* the cache key of createMultiCollectionVectorStoreFromEnv
MultiCacheKey(e, cfg) ==
  createServiceKey("multiCollectionVectorStore",
    [ type |-> cfg.type,
      collection |-> cfg.collectionName,
      reflectionCollection |-> Or(e.REFLECTION_VECTOR_STORE_COLLECTION, Txt(<<>>)),
      workspaceCollection |->
        Or(e.WORKSPACE_VECTOR_STORE_COLLECTION, Txt(workspace_memory)),
      workspaceEnabled |-> Bool(Truthy(e.USE_WORKSPACE_MEMORY)),
      dimension |-> cfg.dimension ])

\* createVectorStore up to `await manager.connect()`
createVectorStore(cfg) ==
  Attempt("single", NoKey, env, TRUE, "connecting")

\* createDualCollectionVectorStoreInternal up to `await manager.connect()`:
\* without a reflection collection the connect is outside any try block
createDualCollectionVectorStoreInternal(key, cfg) ==
  Attempt("dual", key, env, ReflectionCollection(env) # <<>>, "connecting")

\* createMultiCollectionVectorStoreInternal up to `await import(...)`
createMultiCollectionVectorStoreInternal(key, cfg) ==
  Attempt("multi", key, env, TRUE, "importing")

\* a variant: every call builds its own instance
createDualCollectionVectorStoreUncached ==
  /\ Len(calls) < MaxCalls
  /\ LET cfg == getVectorStoreConfigFromEnv(env, agentConfig)
         key == DualCacheKey(env, cfg)
     IN Uncached("dual", key, createDualCollectionVectorStoreInternal(key, cfg))
  /\ UNCHANGED resolverVars

createDualCollectionVectorStoreFromEnv ==
  /\ Len(calls) < MaxCalls
  /\ LET cfg == getVectorStoreConfigFromEnv(env, agentConfig)
         key == DualCacheKey(env, cfg)
     IN getOrCreate("dual", key, createDualCollectionVectorStoreInternal(key, cfg))
  /\ UNCHANGED resolverVars

\* a variant: every call builds its own instance
createMultiCollectionVectorStoreUncached ==
  /\ Len(calls) < MaxCalls
  /\ LET cfg == getVectorStoreConfigFromEnv(env, agentConfig)
         key == MultiCacheKey(env, cfg)
     IN Uncached("multi", key, createMultiCollectionVectorStoreInternal(key, cfg))
  /\ UNCHANGED resolverVars

createMultiCollectionVectorStoreFromEnv ==
  /\ Len(calls) < MaxCalls
  /\ LET cfg == getVectorStoreConfigFromEnv(env, agentConfig)
         key == MultiCacheKey(env, cfg)
     IN getOrCreate("multi", key, createMultiCollectionVectorStoreInternal(key, cfg))
  /\ UNCHANGED resolverVars

createVectorStoreFromEnv ==
  /\ Len(calls) < MaxCalls
  /\ Uncached("single", NoKey,
              createVectorStore(getVectorStoreConfigFromEnv(env, agentConfig)))
  /\ UNCHANGED resolverVars

\* the catch block: `await manager.disconnect().catch(() => {})` is started
Cleanup(a, error) ==
  [a EXCEPT !.pc = "disconnecting", !.error = error,
            !.disconnects = a.disconnects + 1]

\* an error that leaves the function at once
Throw(a, error) == [a EXCEPT !.pc = "thrown", !.error = error]

\* a variant: a failed connection is tried once more before giving up
RaiseAfterRetry(a, error) ==
  IF a.connects < 2
  THEN [a EXCEPT !.pc = "connecting", !.connects = a.connects + 1,
                 !.stores = {}, !.requested = {}]
  ELSE IF a.guarded THEN Cleanup(a, error) ELSE Throw(a, error)

\* an error thrown where connect() is awaited: inside the try block it
\* reaches the catch block, outside it leaves the function
Raise(a, error) == IF a.guarded THEN Cleanup(a, error) ELSE Throw(a, error)

Return(a, result) == [a EXCEPT !.pc = "returned", !.result = result]

\* the code after `await manager.connect()` resolved with `connected`
AfterConnect(a, id, connected) ==
  CASE a.kind = "single" ->
         Return(a, [manager |-> id, store |-> getStore(a, id, "store")])
    [] a.kind = "dual" /\ ~a.guarded ->
         LET b == [a EXCEPT !.requested = {"knowledge"}] IN
         IF getStore(b, id, "knowledge") = Null
         THEN Raise(b, "no knowledge store")
         ELSE Return(b, [ manager |-> id,
                          knowledgeStore |-> getStore(b, id, "knowledge"),
                          reflectionStore |-> Null ])
    [] a.kind = "dual" /\ a.guarded ->
         LET b == [a EXCEPT !.requested = {"knowledge", "reflection"}] IN
         IF getStore(b, id, "knowledge") = Null
         THEN Raise(b, "no knowledge store")
         ELSE Return(b, [ manager |-> id,
                          knowledgeStore |-> getStore(b, id, "knowledge"),
                          reflectionStore |-> getStore(b, id, "reflection") ])
    [] OTHER ->
         IF ~connected
         THEN Raise(a, "not connected")
         ELSE LET b == [a EXCEPT !.requested =
                                   {"knowledge", "reflection", "workspace"}] IN
              IF getStore(b, id, "knowledge") = Null
              THEN Raise(b, "no knowledge store")
              ELSE Return(b, [ manager |-> id,
                               knowledgeStore |-> getStore(b, id, "knowledge"),
                               reflectionStore |-> getStore(b, id, "reflection"),
                               workspaceStore |-> getStore(b, id, "workspace") ])

\* a variant: without `.catch`, a rejection of disconnect() becomes the error
CatchMissing(a, outcome) ==
  [a EXCEPT !.teardown = outcome,
            !.error = IF outcome = "rejected" THEN "disconnect rejected" ELSE @]

\* `.catch(() => {})` on the promise of disconnect(): either outcome is
\* ignored
CatchIgnored(a, outcome) == [a EXCEPT !.teardown = outcome]

\* a variant: the catch block ends without rethrowing
AfterCleanupSwallowed(a) == [a EXCEPT !.pc = "returned", !.cleaned = TRUE]

\* the end of the catch block: the error is logged and rethrown
AfterCleanup(a) == [a EXCEPT !.pc = "thrown", !.cleaned = TRUE]

\* a variant: only the caller that invoked the factory sees it settle
CallsAfterSettleInvokerOnly(id, a) ==
  [c \in 1..Len(calls) |->
     IF /\ calls[c].attempt = id
        /\ calls[c].pc = "awaiting"
        /\ calls[c].how = "invoked"
        /\ a.pc \in Settled
     THEN [calls[c] EXCEPT
             !.pc = IF a.pc = "returned" THEN "resolved" ELSE "rejected",
             !.error = a.error,
             !.result = a.result]
     ELSE calls[c]]

\* the callers awaiting the factory promise resume when it settles, with
\* its value or its error
CallsAfterSettle(id, a) ==
  [c \in 1..Len(calls) |->
     IF calls[c].attempt = id /\ calls[c].pc = "awaiting" /\ a.pc \in Settled
     THEN [calls[c] EXCEPT
             !.pc = IF a.pc = "returned" THEN "resolved" ELSE "rejected",
             !.error = a.error,
             !.result = a.result]
     ELSE calls[c]]

\* an attempt moves on; when the factory settles, the cache entry and the
\* awaiting callers follow in the same turn of the event loop
Step(id, a) ==
  /\ attempts' = [attempts EXCEPT ![id] = a]
  /\ cache' = CacheAfterSettle(id, a)
  /\ calls' = CallsAfterSettle(id, a)
  /\ UNCHANGED resolverVars

\* `await import('./multi-collection-manager.js')` resolves: the manager is
\* created and connect() called
ImportResolves(id) ==
  /\ attempts[id].pc = "importing"
  /\ Step(id, [attempts[id] EXCEPT !.pc = "connecting",
                                   !.slots = EnabledSlots("multi", env),
                                   !.connects = attempts[id].connects + 1])

\* manager.connect() resolves
ConnectResolves(id) ==
  /\ attempts[id].pc = "connecting"
  /\ \E stores \in ConnectedStores(attempts[id].slots) :
       \E connected \in (IF attempts[id].kind = "multi" /\ stores = attempts[id].slots
                          THEN BOOLEAN ELSE {TRUE}) :
         Step(id, AfterConnect([attempts[id] EXCEPT !.stores = stores],
                               id, connected))

\* manager.connect() rejects
ConnectRejects(id) ==
  /\ attempts[id].pc = "connecting"
  /\ Step(id, Raise(attempts[id], "connect rejected"))

\* manager.disconnect() resolves or rejects, and the catch block goes on
DisconnectSettles(id) ==
  /\ attempts[id].pc = "disconnecting"
  /\ \E outcome \in {"resolved", "rejected"} :
       Step(id, AfterCleanup(CatchIgnored(attempts[id], outcome)))

\* process.env.<name> = value (or delete), for a variable the collection
\* factories read; the environment is set up before the first factory call
SetOrchestratorEnv ==
  /\ calls = <<>>
  /\ \E i \in (Len(ResolverVars) + 1)..Len(EnvOrder) :
       \E val \in EnvValues(EnvOrder[i]) \cup {Undefined} :
         /\ env[EnvOrder[i]] # val
         /\ env' = [env EXCEPT ![EnvOrder[i]] = val]
  /\ UNCHANGED <<agentConfig, config, wsConfig, parsed, factoryVars>>

Next ==
  \/ SetOrchestratorEnv
  \/ createVectorStoreFromEnv
  \/ createDualCollectionVectorStoreFromEnv
  \/ createMultiCollectionVectorStoreFromEnv
  \/ \E id \in 1..Len(attempts) : ImportResolves(id)
  \/ \E id \in 1..Len(attempts) : ConnectResolves(id)
  \/ \E id \in 1..Len(attempts) : ConnectRejects(id)
  \/ \E id \in 1..Len(attempts) : DisconnectSettles(id)

Spec == Init /\ [][Next]_vars

\* ------------------------------------------------------------------------
\* The recipients of a factory result
\* ------------------------------------------------------------------------

\* a caller that received `{ manager, ... }` ends its use of it, as the
\* usage example does: `await manager.disconnect()`.  A call that does not
\* disconnect the manager leaves the state as it is.
RecipientDisconnects(c) ==
  /\ calls[c].pc = "resolved"
  /\ LET id == calls[c].result.manager IN
       /\ isConnected(attempts[id])
       /\ attempts' = [attempts EXCEPT ![id].disconnected = TRUE]
  /\ UNCHANGED <<cache, calls, resolverVars>>

\* the cached factories, their constructions and their recipients
NextLifecycle ==
  \/ SetOrchestratorEnv
  \/ createDualCollectionVectorStoreFromEnv
  \/ createMultiCollectionVectorStoreFromEnv
  \/ \E id \in 1..Len(attempts) : ImportResolves(id)
  \/ \E id \in 1..Len(attempts) : ConnectResolves(id)
  \/ \E id \in 1..Len(attempts) : ConnectRejects(id)
  \/ \E id \in 1..Len(attempts) : DisconnectSettles(id)
  \/ \E c \in 1..Len(calls) : RecipientDisconnects(c)

SpecLifecycle == Init /\ [][NextLifecycle]_vars

\* ------------------------------------------------------------------------
\* Properties of the resolvers (checked under SpecResolve)
\* ------------------------------------------------------------------------

RemoteTypes == {Str("qdrant"), Str("milvus"), Str("chroma")}

HasFallbackTag(c) == "_fallbackFrom" \in DOMAIN c

\* the connection information the requested type needs is there
ConnectionInfoPresent(e) ==
  IF e.VECTOR_STORE_TYPE = Str("pinecone")
  THEN Truthy(e.VECTOR_STORE_API_KEY)
  ELSE Truthy(e.VECTOR_STORE_URL) \/ Truthy(e.VECTOR_STORE_HOST)

\* C4: getVectorStoreConfigFromEnv, for a requested type qdrant, milvus or
\* chroma without url and host, and for pinecone without an API key, returns
\* an in-memory config whose _fallbackFrom is the requested type; with the
\* connection information present it keeps the requested type and carries
\* no _fallbackFrom.
C4_FallbackSubstitution ==
  (config # NoConfig /\ env.VECTOR_STORE_TYPE \in RemoteTypes \cup {Str("pinecone")})
  =>
  IF ConnectionInfoPresent(env)
  THEN config.type = env.VECTOR_STORE_TYPE /\ ~HasFallbackTag(config)
  ELSE /\ config.type = Str("in-memory")
       /\ HasFallbackTag(config)
       /\ config._fallbackFrom = env.VECTOR_STORE_TYPE

\* a chroma request with a host but no url has been resolved
C4_Witness ==
  /\ config # NoConfig
  /\ env.VECTOR_STORE_TYPE = Str("chroma")
  /\ env.VECTOR_STORE_URL = Undefined
  /\ env.VECTOR_STORE_HOST = Str("localhost")
  /\ config.type = Str("chroma")

\* agentConfig.embedding.dimensions is a positive integer
PositiveIntegerOverride ==
  /\ agentConfig.t = "object"
  /\ EmbeddingOf(agentConfig).t = "object"
  /\ "dimensions" \in DOMAIN EmbeddingOf(agentConfig).fields
  /\ IsInteger(EmbeddingOf(agentConfig).fields.dimensions)
  /\ GreaterThanZero(EmbeddingOf(agentConfig).fields.dimensions)

\* C5: when agentConfig.embedding.dimensions is a positive integer, the
\* dimension of the config either resolver returns (fallback substitution
\* included) is that override, whatever the dimension variables hold.
C5_DimensionOverride ==
  PositiveIntegerOverride =>
    /\ config # NoConfig =>
         config.dimension = EmbeddingOf(agentConfig).fields.dimensions
    /\ wsConfig # NoConfig =>
         wsConfig.dimension = EmbeddingOf(agentConfig).fields.dimensions

\* a fallback-substituted workspace config resolved with an override while
\* the environment names another dimension
C5_Witness ==
  /\ PositiveIntegerOverride
  /\ wsConfig # NoConfig
  /\ HasFallbackTag(wsConfig)
  /\ env.VECTOR_STORE_DIMENSION = Num(0)

IsPositiveInteger(v) == IsInteger(v) /\ GreaterThanZero(v)

\* the dimension the override hint asks for, when it is a positive integer
ValidOverride(agent) ==
  LET embedding == EmbeddingOf(agent) IN
  IF /\ embedding.t = "object"
     /\ "dimensions" \in DOMAIN embedding.fields
     /\ IsPositiveInteger(embedding.fields.dimensions)
  THEN embedding.fields.dimensions
  ELSE Undefined

\* the first of the values that is a positive integer, else 1536
FirstPositiveInteger(values) ==
  IF \E i \in 1..Len(values) : IsPositiveInteger(values[i])
  THEN values[CHOOSE i \in 1..Len(values) :
                /\ IsPositiveInteger(values[i])
                /\ \A j \in 1..(i - 1) : ~IsPositiveInteger(values[j])]
  ELSE Num(DefaultDimension)

\* C8: the dimension either resolver returns is a positive integer: the
\* override when that is a positive integer, else the environment dimension
\* when that is a positive integer, else 1536.
C8_DimensionPositiveInteger ==
  /\ config # NoConfig =>
       /\ IsPositiveInteger(config.dimension)
       /\ config.dimension =
            FirstPositiveInteger(<<ValidOverride(agentConfig),
                                   env.VECTOR_STORE_DIMENSION>>)
  /\ wsConfig # NoConfig =>
       /\ IsPositiveInteger(wsConfig.dimension)
       /\ wsConfig.dimension =
            FirstPositiveInteger(<<ValidOverride(agentConfig),
                                   env.WORKSPACE_VECTOR_STORE_DIMENSION,
                                   env.VECTOR_STORE_DIMENSION>>)

\* a variable holds a usable value
IsSet(v) == v # Undefined /\ ~IsNaN(v) /\ (IsString(v) => ~IsEmptyString(v))

\* the workspace variable when set, else the default variable when set, else
\* the hard default
FieldByField(e, name, hard) ==
  IF IsSet(e["WORKSPACE_" \o name]) THEN e["WORKSPACE_" \o name]
  ELSE IF IsSet(e[name]) THEN e[name]
  ELSE hard

\* the environment variable behind each field of a workspace config
WorkspaceFieldVars ==
  [ host |-> "VECTOR_STORE_HOST", url |-> "VECTOR_STORE_URL",
    port |-> "VECTOR_STORE_PORT", apiKey |-> "VECTOR_STORE_API_KEY",
    token |-> "VECTOR_STORE_API_KEY", username |-> "VECTOR_STORE_USERNAME",
    password |-> "VECTOR_STORE_PASSWORD", distance |-> "VECTOR_STORE_DISTANCE",
    onDisk |-> "VECTOR_STORE_ON_DISK" ]

\* C9: every field of the workspace config is the WORKSPACE_ variable when
\* set, else the non-prefixed variable when set, else the hard default; a
\* pinecone workspace config uses WORKSPACE_VECTOR_STORE_API_KEY when set.
C9_WorkspaceFieldByField ==
  wsConfig # NoConfig =>
    LET type == FieldByField(env, "VECTOR_STORE_TYPE", Str("in-memory"))
        apiKey == FieldByField(env, "VECTOR_STORE_API_KEY", Undefined)
    IN
    /\ (type = Str("pinecone") /\ Truthy(apiKey)) =>
         wsConfig.type = Str("pinecone") /\ wsConfig.apiKey = apiKey
    /\ ~HasFallbackTag(wsConfig) =>
         /\ wsConfig.type = (IF type.s \in BackendTypes THEN type
                              ELSE Str("in-memory"))
         /\ \A f \in (DOMAIN WorkspaceFieldVars) \cap (DOMAIN wsConfig) :
              (f = "distance" /\ type = Str("chroma"))
              \/ wsConfig[f] = FieldByField(env, WorkspaceFieldVars[f], Undefined)
    /\ agentConfig = Undefined =>
         wsConfig.dimension = FieldByField(env, "VECTOR_STORE_DIMENSION",
                                           Num(DefaultDimension))
    /\ "maxVectors" \in DOMAIN wsConfig =>
         wsConfig.maxVectors = FieldByField(env, "VECTOR_STORE_MAX_VECTORS",
                                            Num(DefaultMaxVectors))

\* C10: a config returned through fallback substitution, with a well-formed
\* collection name, is accepted by VectorStoreSchema without any issue.
C10_FallbackConfigValid ==
  /\ (config # NoConfig /\ HasFallbackTag(config)
        /\ WellFormedName(config.collectionName))
     => VectorStoreSchema(config) = {}
  /\ (wsConfig # NoConfig /\ HasFallbackTag(wsConfig)
        /\ WellFormedName(wsConfig.collectionName))
     => VectorStoreSchema(wsConfig) = {}

\* ------------------------------------------------------------------------
\* Properties of the factories (checked under Spec)
\* ------------------------------------------------------------------------

CallIds == 1..Len(calls)

AttemptIds == 1..Len(attempts)

\* the calls that went through the service cache
CachedCalls == {c \in CallIds : calls[c].key # NoKey}

\* C1: calls that compute the same cache key while a construction for that
\* key is in flight join it: the factory is not invoked again, at most one
\* construction per key is in flight, and the calls that shared a
\* construction resolve to the same instance.
C1_SingleFlight ==
  /\ \A c \in CachedCalls :
       calls[c].inFlightAtStart # {} =>
         /\ calls[c].attempt \in calls[c].inFlightAtStart
         /\ calls[c].how = "joined"
  /\ \A i \in AttemptIds :
       attempts[i].key # NoKey => Cardinality(InFlight(attempts[i].key)) <= 1
  /\ \A c, d \in CachedCalls :
       (calls[c].attempt = calls[d].attempt /\ calls[c].pc # "awaiting") =>
         /\ calls[d].pc = calls[c].pc
         /\ calls[d].result = calls[c].result
         /\ calls[c].pc = "resolved" => calls[c].result.manager = calls[c].attempt

\* two calls shared one construction and both resolved
C1_Witness ==
  \E c, d \in CachedCalls :
    /\ c < d
    /\ calls[d].inFlightAtStart = {calls[c].attempt}
    /\ calls[c].how = "invoked"
    /\ calls[c].pc = "resolved"
    /\ calls[d].pc = "resolved"

\* the construction of an attempt failed
Failed(i) == attempts[i].pc \in Settled /\ attempts[i].error # "none"

\* the attempts for the key of call c that were made before it
PriorAttempts(c) ==
  {i \in 1..calls[c].priorAttempts : attempts[i].key = calls[c].key}

\* C2: a failed construction leaves no cache entry behind, and a call that
\* finds only failed constructions for its key invokes the factory again.
C2_FailureNotCached ==
  /\ \A i \in AttemptIds :
       Failed(i) => \A en \in cache : en.attempt # i
  /\ \A c \in CachedCalls :
       (/\ calls[c].inFlightAtStart = {}
        /\ \A i \in PriorAttempts(c) : Failed(i))
       => /\ calls[c].how = "invoked"
          /\ calls[c].attempt = calls[c].priorAttempts + 1

\* a call retried a key whose earlier construction had failed
C2_Witness ==
  \E c \in CachedCalls :
    /\ PriorAttempts(c) # {}
    /\ calls[c].inFlightAtStart = {}
    /\ \A i \in PriorAttempts(c) : Failed(i)
    /\ calls[c].how = "invoked"

\* C3: once a construction for a key has succeeded, every later call with
\* that key gets that instance from the cache and the factory is not
\* invoked again.
C3_DeterministicReuse ==
  \A c \in CachedCalls :
    \A i \in PriorAttempts(c) :
      (attempts[i].pc = "returned" /\ attempts[i].error = "none") =>
        /\ calls[c].attempt = i
        /\ calls[c].how \in {"joined", "cached"}
        /\ calls[c].pc = "resolved"
        /\ calls[c].result = attempts[i].result
        /\ i \notin calls[c].inFlightAtStart => calls[c].how = "cached"

\* the third call reuses the instance of the first after a call for
\* another key
C3_Witness ==
  /\ Len(calls) = 3
  /\ calls[3].how = "cached"
  /\ calls[3].attempt = calls[1].attempt
  /\ calls[2].key # calls[3].key
  /\ calls[2].key # NoKey

\* C6: on every failure path of the three factories manager.disconnect()
\* has been called and has settled before the failure reaches the caller.
C6_CleanupBeforeFailure ==
  \A i \in AttemptIds :
    attempts[i].pc = "thrown" =>
      attempts[i].disconnects >= 1 /\ attempts[i].cleaned

\* the collection name is unset, empty or whitespace
Blank(v) == Trim(Or(v, Txt(<<>>)).chars) = <<>>

\* C7: with REFLECTION_VECTOR_STORE_COLLECTION unset, empty or blank, a
\* successful createDualCollectionVectorStoreFromEnv returns a knowledge
\* store and reflectionStore = null, and never asks the manager for the
\* reflection store.
C7_ReflectionDisabled ==
  \A c \in CallIds :
    (calls[c].fn = "dual" /\ calls[c].pc = "resolved" /\ Blank(calls[c].reflection))
    => /\ calls[c].result.reflectionStore = Null
       /\ calls[c].result.knowledgeStore # Null
       /\ "reflection" \notin attempts[calls[c].attempt].requested
       /\ attempts[calls[c].attempt].error = "none"

\* a dual call resolved while the collection name was a single space
C7_Witness ==
  \E c \in CallIds :
    /\ calls[c].fn = "dual"
    /\ calls[c].pc = "resolved"
    /\ calls[c].reflection = Txt(<<" ">>)

\* ------------------------------------------------------------------------
\* Properties of the validator (checked under SpecValidate)
\* ------------------------------------------------------------------------

\* safeParse reported an issue on this path
Reports(path) == \E i \in parsed.issues : i.path = path

\* a config of a known backend type with a string name has been parsed
NameParsed ==
  /\ parsed # NoParse
  /\ config.type.s \in BackendTypes
  /\ IsText(config.collectionName)

\* a field of the selected variant has the wrong type or an enum value
\* outside its list, so zod returns before the refinement runs
FieldAborted == DiscriminatedUnion(config).aborted

\* C11 as stated: for every backend type a collectionName violation is
\* reported exactly when the name is empty or has a character outside
\* [A-Za-z0-9_-], whatever the other fields hold.
C11_NameCheckUnconditional ==
  NameParsed =>
    (Reports("collectionName") <=> ~WellFormedName(config.collectionName))

\* C11 amended: a well-formed name is never reported and an empty name is
\* always reported (by min(1)); a non-empty name with a character outside
\* the alphabet is reported exactly when no other field has a wrong type or
\* an invalid enum value, because the format test lives in superRefine.
C11_NameCheckUnlessAborted ==
  NameParsed =>
    /\ WellFormedName(config.collectionName) => ~Reports("collectionName")
    /\ config.collectionName.chars = <<>> => Reports("collectionName")
    /\ (/\ ~WellFormedName(config.collectionName)
        /\ config.collectionName.chars # <<>>)
       => (Reports("collectionName") <=> ~FieldAborted)

\* an ill-formed name was reported for a chroma config whose other fields
\* parse
C11_Witness ==
  /\ NameParsed
  /\ config.type = Str("chroma")
  /\ config.collectionName = Txt(<<"a", " ">>)
  /\ ~FieldAborted
  /\ Reports("collectionName")

\* ------------------------------------------------------------------------
\* Properties of the cache keys (checked under SpecResolve)
\* ------------------------------------------------------------------------

\* the environments that differ from env in at most one variable
NeighbourEnvs ==
  UNION { { [env EXCEPT ![v] = val] : val \in EnvValues(v) \cup {Undefined} } :
          v \in EnvVars }

\* two environments ask for the same knowledge and reflection collections
SameDualRequest(e1, e2) ==
  /\ getVectorStoreConfigFromEnv(e1, agentConfig)
       = getVectorStoreConfigFromEnv(e2, agentConfig)
  /\ ReflectionCollection(e1) = ReflectionCollection(e2)

\* ... and for the same workspace collection
SameMultiRequest(e1, e2) ==
  /\ SameDualRequest(e1, e2)
  /\ Truthy(e1.USE_WORKSPACE_MEMORY) = Truthy(e2.USE_WORKSPACE_MEMORY)
  /\ Truthy(e1.USE_WORKSPACE_MEMORY) =>
       getWorkspaceVectorStoreConfigFromEnv(e1, agentConfig)
         = getWorkspaceVectorStoreConfigFromEnv(e2, agentConfig)

\* C12: the cache keys of createDualCollectionVectorStoreFromEnv (and of
\* createMultiCollectionVectorStoreFromEnv) for two environments are equal
\* exactly when the two requests would build the same collection set.
C12_CanonicalCacheKey ==
  config # NoConfig =>
    \A e2 \in NeighbourEnvs :
      LET cfg2 == getVectorStoreConfigFromEnv(e2, agentConfig) IN
      /\ (DualCacheKey(env, config) = DualCacheKey(e2, cfg2))
           <=> SameDualRequest(env, e2)
      /\ (MultiCacheKey(env, config) = MultiCacheKey(e2, cfg2))
           <=> SameMultiRequest(env, e2)

\* ------------------------------------------------------------------------
\* Further properties of the resolvers (checked under SpecResolve)
\* ------------------------------------------------------------------------

\* the canonical metric names
CanonicalMetrics ==
  { cosine, <<"l","2">>, <<"e","u","c","l","i","d","e","a","n">>,
    <<"i","p">>, <<"d","o","t">> }

\* the config carries a distance metric
CarriesMetric(cfg) ==
  /\ cfg # NoConfig
  /\ cfg.type \in {Str("qdrant"), Str("chroma"), Str("pinecone")}

\* the metric of a resolved config
MetricOf(cfg) ==
  IF cfg.type = Str("pinecone") THEN cfg.metric ELSE cfg.distance

\* the environment value the metric of a config is read from
MetricSource(cfg, workspace) ==
  IF cfg.type = Str("pinecone")
  THEN Or(env.PINECONE_METRIC, env.VECTOR_STORE_DISTANCE)
  ELSE IF workspace
  THEN Or(env.WORKSPACE_VECTOR_STORE_DISTANCE, env.VECTOR_STORE_DISTANCE)
  ELSE env.VECTOR_STORE_DISTANCE

\* the metric of cfg is canonical, and cosine for an unrecognized value
Normalized(cfg, workspace) ==
  (CarriesMetric(cfg) /\ Truthy(MetricSource(cfg, workspace))) =>
    /\ IsText(MetricOf(cfg))
    /\ MetricOf(cfg).chars \in CanonicalMetrics
    /\ ToLowerCase(MetricSource(cfg, workspace).chars) \notin CanonicalMetrics
         => MetricOf(cfg) = Txt(cosine)

\* C13: for qdrant, chroma and pinecone and every value of the distance
\* variable in any letter case, the resolved metric is one of the canonical
\* values, and an unrecognized value resolves to cosine.
C13_DistanceNormalized ==
  Normalized(config, FALSE) /\ Normalized(wsConfig, TRUE)

\* all four backend types that need connection information
RequestableRemoteTypes == RemoteTypes \cup {Str("pinecone")}

\* the first of the values that is set and numeric, else 10000
FirstNumeric(values) ==
  LET numeric == {i \in 1..Len(values) : IsFinite(values[i])} IN
  IF numeric = {} THEN Num(10000)
  ELSE values[CHOOSE i \in numeric : \A j \in numeric : i <= j]

\* what C14 says of one resolved config, given the type it was asked for
\* and the maxVectors variables it consults
PlainInMemory(cfg, requested, maxVectorsVars) ==
  cfg # NoConfig =>
    /\ requested \notin RequestableRemoteTypes =>
         /\ cfg.type = Str("in-memory")
         /\ cfg.maxVectors = FirstNumeric(maxVectorsVars)
         /\ ~HasFallbackTag(cfg)
    /\ HasFallbackTag(cfg) <=>
         (requested \in RequestableRemoteTypes /\ cfg.type = Str("in-memory"))

\* C14: a requested type that is unset, 'in-memory' or not one of qdrant,
\* milvus, chroma, pinecone resolves (in both resolvers) to an in-memory
\* config with maxVectors from the environment or 10000 and without
\* _fallbackFrom; a config carries _fallbackFrom exactly when a remote type
\* was requested and in-memory was substituted.
C14_PlainInMemory ==
  /\ PlainInMemory(config, env.VECTOR_STORE_TYPE,
                   << env.VECTOR_STORE_MAX_VECTORS >>)
  /\ PlainInMemory(wsConfig,
                   Or(env.WORKSPACE_VECTOR_STORE_TYPE, env.VECTOR_STORE_TYPE),
                   << env.WORKSPACE_VECTOR_STORE_MAX_VECTORS,
                      env.VECTOR_STORE_MAX_VECTORS >>)

\* an unknown type was resolved with VECTOR_STORE_MAX_VECTORS = 500
C14_Witness ==
  /\ config # NoConfig
  /\ env.VECTOR_STORE_TYPE = Str("weaviate")
  /\ env.VECTOR_STORE_MAX_VECTORS = Num(500)
  /\ config.type = Str("in-memory")
  /\ config.maxVectors = Num(500)

\* ------------------------------------------------------------------------
\* Completeness of the diagnostics (checked under SpecValidate)
\* ------------------------------------------------------------------------

\* the invariants a config violates, each named by the path it is reported
\* on: url-or-host ("url"), apiKey, indexName, collection-name format,
\* positive-integer dimension
ViolatedInvariants(c) ==
  LET type == Field(c, "type") IN
  (IF /\ type \in RemoteTypes
      /\ ~Truthy(Field(c, "url"))
      /\ ~Truthy(Field(c, "host"))
   THEN {"url"} ELSE {})
  \cup (IF type = Str("pinecone") /\ ~Truthy(Field(c, "apiKey"))
        THEN {"apiKey"} ELSE {})
  \cup (IF type = Str("pinecone") /\ ~Truthy(Field(c, "indexName"))
        THEN {"indexName"} ELSE {})
  \cup (IF ~WellFormedName(Field(c, "collectionName"))
        THEN {"collectionName"} ELSE {})
  \cup (IF /\ Field(c, "dimension") # Undefined
           /\ ~IsPositiveInteger(Field(c, "dimension"))
        THEN {"dimension"} ELSE {})

\* the invariants safeParse reported as violated
ReportedInvariants ==
  {p \in {"apiKey", "indexName", "collectionName", "dimension"} : Reports(p)}
  \cup (IF Issue("url", "custom") \in parsed.issues THEN {"url"} ELSE {})

\* a config of a known backend type has been parsed
KnownTypeParsed == parsed # NoParse /\ config.type.s \in BackendTypes

\* C15 as stated: for every config the violations reported are all the
\* invariants the config violates.
C15_AllViolationsReported ==
  KnownTypeParsed => ReportedInvariants = ViolatedInvariants(config)

\* C15 amended: every reported violation is a violated invariant and a
\* config that violates one is rejected; the report is complete when no
\* field has a wrong type or an invalid enum value (value errors such as an
\* empty apiKey do not stop the other checks).
C15_AllViolationsUnlessAborted ==
  KnownTypeParsed =>
    /\ ReportedInvariants \subseteq ViolatedInvariants(config)
    /\ ViolatedInvariants(config) # {} => parsed.issues # {}
    /\ ~FieldAborted => ReportedInvariants = ViolatedInvariants(config)

\* a pinecone config with an empty apiKey and an ill-formed collection name
\* got both violations
C15_Witness ==
  /\ KnownTypeParsed
  /\ config.type = Str("pinecone")
  /\ config.apiKey = Str("")
  /\ config.collectionName = Txt(<<"a", " ">>)
  /\ ~FieldAborted
  /\ {"apiKey", "collectionName"} \subseteq ReportedInvariants

\* ------------------------------------------------------------------------
\* The fallback of the workspace resolver (checked under SpecResolve)
\* ------------------------------------------------------------------------

\* the type the workspace resolver is asked for
WorkspaceRequestedType ==
  Or(env.WORKSPACE_VECTOR_STORE_TYPE, env.VECTOR_STORE_TYPE)

\* neither url nor host, after the workspace-then-default lookup
WorkspaceConnectionMissing ==
  /\ ~Truthy(Or(env.WORKSPACE_VECTOR_STORE_URL, env.VECTOR_STORE_URL))
  /\ ~Truthy(Or(env.WORKSPACE_VECTOR_STORE_HOST, env.VECTOR_STORE_HOST))

\* no API key in either variable
WorkspaceApiKeyMissing ==
  /\ ~Truthy(env.WORKSPACE_VECTOR_STORE_API_KEY)
  /\ ~Truthy(env.VECTOR_STORE_API_KEY)

\* the workspace resolver was asked for a remote type without the
\* connection information that type needs
WorkspaceFallbackCase ==
  /\ wsConfig # NoConfig
  /\ \/ WorkspaceRequestedType \in RemoteTypes /\ WorkspaceConnectionMissing
     \/ WorkspaceRequestedType = Str("pinecone") /\ WorkspaceApiKeyMissing

\* C16 as stated: in that case the workspace resolver returns an in-memory
\* config whose _fallbackFrom equals the requested type.
C16_WorkspaceFallbackTagIsType ==
  WorkspaceFallbackCase =>
    /\ wsConfig.type = Str("in-memory")
    /\ HasFallbackTag(wsConfig)
    /\ wsConfig._fallbackFrom = WorkspaceRequestedType

\* C16 amended: in that case the workspace resolver returns an in-memory
\* config whose _fallbackFrom is the requested type followed by
\* "-workspace"; a qdrant, milvus or chroma request with a url or a host
\* keeps its type and carries no tag.
C16_WorkspaceFallbackTagSuffixed ==
  /\ WorkspaceFallbackCase =>
       /\ wsConfig.type = Str("in-memory")
       /\ HasFallbackTag(wsConfig)
       /\ wsConfig._fallbackFrom = Str(WorkspaceRequestedType.s \o "-workspace")
  /\ (/\ wsConfig # NoConfig
      /\ WorkspaceRequestedType \in RemoteTypes
      /\ ~WorkspaceConnectionMissing)
     => wsConfig.type = WorkspaceRequestedType /\ ~HasFallbackTag(wsConfig)

\* a milvus workspace request without url and host has been resolved while
\* the default type is another one
C16_Witness ==
  /\ WorkspaceFallbackCase
  /\ env.WORKSPACE_VECTOR_STORE_TYPE = Str("milvus")
  /\ env.VECTOR_STORE_TYPE = Str("in-memory")
  /\ wsConfig._fallbackFrom = Str("milvus-workspace")

\* ------------------------------------------------------------------------
\* Further properties of the factories (checked under Spec)
\* ------------------------------------------------------------------------

\* the errors a construction can fail with
ConstructionErrors == {"connect rejected", "not connected", "no knowledge store"}

\* C17: whenever cleanup ran after a construction failure, the error the
\* caller observes is the construction error, whether manager.disconnect()
\* resolved or rejected; the call is never turned into a success.
C17_TeardownErrorsSwallowed ==
  \A i \in AttemptIds :
    attempts[i].cleaned =>
      /\ attempts[i].teardown \in {"resolved", "rejected"}
      /\ attempts[i].pc = "thrown"
      /\ attempts[i].error \in ConstructionErrors
      /\ attempts[i].error = "no knowledge store" <=> attempts[i].requested # {}
      /\ attempts[i].result = Null

\* disconnect() rejected during the cleanup of a failed multi-collection
\* construction, and the factory threw the construction error
C17_Witness ==
  \E i \in AttemptIds :
    /\ attempts[i].kind = "multi"
    /\ attempts[i].pc = "thrown"
    /\ attempts[i].teardown = "rejected"
    /\ attempts[i].error = "not connected"

\* the calls that wait or waited for attempt i
CallsOf(i) == {c \in CachedCalls : calls[c].attempt = i}

\* C18: when the construction several callers are awaiting fails, each of
\* them observes that failure: none is left waiting, none gets a handle,
\* and none of the waiters has started a construction of its own.
C18_SharedFailure ==
  \A i \in AttemptIds :
    (attempts[i].key # NoKey /\ Failed(i)) =>
      /\ \A c \in CallsOf(i) :
           /\ calls[c].pc = "rejected"
           /\ calls[c].error = attempts[i].error
           /\ calls[c].result = Null
      /\ Cardinality({c \in CallsOf(i) : calls[c].how = "invoked"}) = 1
      /\ \A c \in CallsOf(i) :
           calls[c].how # "invoked" =>
             /\ calls[c].how = "joined"
             /\ calls[c].priorAttempts >= i

\* three callers shared a construction that failed because connect()
\* rejected
C18_Witness ==
  \E i \in AttemptIds :
    /\ Failed(i)
    /\ attempts[i].error = "connect rejected"
    /\ Cardinality(CallsOf(i)) = 3
    /\ \A c \in CallsOf(i) : calls[c].pc = "rejected"

\* C19: a dual or multi collection call that succeeds returns a knowledge
\* store, a reflection store exactly when REFLECTION_VECTOR_STORE_COLLECTION
\* is non-blank after trimming, and (multi) a workspace store exactly when
\* USE_WORKSPACE_MEMORY is set; a missing store of an enabled slot makes the
\* call fail.
C19_NoPartialCollectionSet ==
  \A c \in CallIds :
    (calls[c].fn \in {"dual", "multi"} /\ calls[c].pc = "resolved") =>
      /\ calls[c].result.knowledgeStore # Null
      /\ calls[c].result.reflectionStore # Null <=> ~Blank(calls[c].reflection)
      /\ calls[c].fn = "multi" =>
           (calls[c].result.workspaceStore # Null <=> Truthy(calls[c].workspace))

\* the steps an invocation may take: (importing ->) connecting -> returned,
\* or connecting -> thrown, directly or through the cleanup
PhaseSteps ==
  { <<"importing", "connecting">>, <<"connecting", "returned">>,
    <<"connecting", "thrown">>, <<"connecting", "disconnecting">>,
    <<"disconnecting", "thrown">> }

\* every invocation has called connect() at most once, and exactly once as
\* soon as its manager exists; there are as many invocations as calls that
\* invoked a factory
OneConnectEach ==
  /\ \A i \in AttemptIds :
       /\ attempts[i].connects <= 1
       /\ attempts[i].pc # "importing" => attempts[i].connects = 1
  /\ Len(attempts) = Cardinality({c \in CallIds : calls[c].how = "invoked"})

\* an invocation only moves forward, connect() is called on entering
\* Connecting and at no other time, and an invocation is added only by a
\* call of an exported factory
ForwardOnly ==
  /\ Len(attempts') >= Len(attempts)
  /\ Len(attempts') > Len(attempts) => Len(calls') = Len(calls) + 1
  /\ \A i \in AttemptIds :
       /\ attempts'[i].pc # attempts[i].pc =>
            <<attempts[i].pc, attempts'[i].pc>> \in PhaseSteps
       /\ attempts'[i].connects =
            attempts[i].connects
            + (IF attempts[i].pc = "importing" /\ attempts'[i].pc = "connecting"
               THEN 1 ELSE 0)

\* C20: each invocation of an internal factory creates one manager and
\* calls connect() exactly once, going Idle -> Connecting -> Ready or
\* Idle -> Connecting -> Failed; after a failure it does not connect again,
\* and a new attempt is made only when a caller invokes the factory again.
C20_NoRetries == []OneConnectEach /\ [][ForwardOnly]_vars

\* a construction failed after its one connect(), and a later call for the
\* same key started a new one
C20_Witness ==
  \E i, j \in AttemptIds :
    /\ i < j
    /\ attempts[i].key = attempts[j].key
    /\ attempts[i].key # NoKey
    /\ attempts[i].pc = "thrown"
    /\ attempts[i].connects = 1
    /\ attempts[j].connects = 1

\* ------------------------------------------------------------------------
\* C21: handles of a cached instance and the manager's lifecycle
\* ------------------------------------------------------------------------

\* call c of a cached factory hands its result to the caller in this step
ReturnsNow(c) ==
  /\ calls'[c].fn \in {"dual", "multi"}
  /\ calls'[c].pc = "resolved"
  /\ (c > Len(calls) \/ calls[c].pc # "resolved")

\* C21: every result returned by createDualCollectionVectorStoreFromEnv or
\* createMultiCollectionVectorStoreFromEnv carries a manager that is
\* connected at the moment of the return, whatever factory calls and
\* manager.disconnect() calls of earlier recipients came before
C21_ReturnedManagerConnected ==
  [][\A c \in 1..Len(calls') :
       ReturnsNow(c) => isConnected(attempts'[calls'[c].result.manager])]_vars

\* ------------------------------------------------------------------------
\* C22: the Pinecone namespaces of the default and the workspace store
\* ------------------------------------------------------------------------

\* the config the default resolver returns for the present inputs
DefaultConfigOfEnv == getVectorStoreConfigFromEnv(env, agentConfig)

\* the workspace resolver has returned a pinecone config, and the default
\* resolver returns one for the same environment
BothPinecone ==
  /\ wsConfig # NoConfig
  /\ wsConfig.type = Str("pinecone")
  /\ DefaultConfigOfEnv.type = Str("pinecone")

\* C22: whenever both resolvers return a pinecone config for an environment,
\* the default config's namespace is PINECONE_NAMESPACE as it stands
\* (possibly unset), the workspace config's namespace is PINECONE_NAMESPACE
\* followed by '-workspace', or 'workspace' when the variable holds no name,
\* and the two namespaces differ
C22_NamespacesDiffer ==
  BothPinecone =>
    /\ DefaultConfigOfEnv.namespace = env.PINECONE_NAMESPACE
    /\ wsConfig.namespace =
         IF IsSet(env.PINECONE_NAMESPACE)
         THEN Txt(env.PINECONE_NAMESPACE.chars
                    \o <<"-", "w", "o", "r", "k", "s", "p", "a", "c", "e">>)
         ELSE Txt(<<"w", "o", "r", "k", "s", "p", "a", "c", "e">>)
    /\ wsConfig.namespace # DefaultConfigOfEnv.namespace

\* both configs are pinecone and PINECONE_NAMESPACE is itself 'workspace',
\* the name the workspace store takes when the variable is unset
C22_Witness ==
  /\ BothPinecone
  /\ env.PINECONE_NAMESPACE = Txt(<<"w", "o", "r", "k", "s", "p", "a", "c", "e">>)
  /\ DefaultConfigOfEnv.namespace = env.PINECONE_NAMESPACE
  /\ wsConfig.namespace # DefaultConfigOfEnv.namespace

====
